---- MODULE Spec2Model ----
(***************************************************************************)
(* Model of the session generator bot (src/bot.py).                        *)
(*                                                                         *)
(* Every webhook delivery is its own aiohttp task that awaits              *)
(* app.process_update(update).  A task is suspended at each network await  *)
(* (reply_text, connect, send_code_request, sign_in, disconnect,           *)
(* send_document, send_message); one step of the model completes the       *)
(* pending await of one task, with an outcome chosen by the environment,   *)
(* and runs the synchronous code that follows it up to the next await.     *)
(*                                                                         *)
(* The conversation state is kept by the ConversationHandler under the key *)
(* (chat id, user id); phone, client and session_path are kept in          *)
(* context.user_data, the bag of the user.                                 *)
(***************************************************************************)
EXTENDS Integers, Sequences, FiniteSets, TLC

\* ------------------------------------------------------------- bounds
\* the clients one run may create, and the updates it may deliver
MaxClients == 2
MaxUpdates == 4

\* Two chats of one user: the conversations differ, the user_data bag is shared.
\* Two webhook tasks may be in flight at once.
Chats == {1, 2}
Users == {1}
Tasks == {1, 2}
ClientIds == 1..MaxClients
Keys == Chats \X Users

\* Python's None, for a handler name, a client, a text or path, and a key
NoneVal == "None"
NoHandle == 0
NoText == <<>>
NoKey == <<0, 0>>

\* ------------------------------------------------------------- states
END == "END"
ASK_PHONE == "ASK_PHONE"
WAIT_CODE == "WAIT_CODE"
WAIT_2FA == "WAIT_2FA"

\* ------------------------------------------------------------- strings
\* A text is a tuple of one-character strings.
IsSpace(c) == c = " "

RECURSIVE lstrip(_)
lstrip(s) == IF s # <<>> /\ IsSpace(Head(s)) THEN lstrip(Tail(s)) ELSE s

RECURSIVE rstrip(_)
rstrip(s) ==
    IF s # <<>> /\ IsSpace(s[Len(s)]) THEN rstrip(SubSeq(s, 1, Len(s) - 1)) ELSE s

strip(s) == rstrip(lstrip(s))

startswith(s, c) == s # <<>> /\ Head(s) = c

NotSpaceChar(c) == c # " "
NotHyphenChar(c) == c # "-"
\* mutant of replace_hyphen: the hyphens stay
keep_hyphen(s) == s

\* str.replace(old, ""), for a one-character old
replace_space(s) == SelectSeq(s, NotSpaceChar)
replace_hyphen(s) == SelectSeq(s, NotHyphenChar)

SESSION_SUFFIX == <<".session">>
JOURNAL_SUFFIX == <<"-journal">>

\* mutant of make_session_filename: the leading '+' is dropped as well
make_session_filename_digits(phone) ==
    LET sanitized == replace_hyphen(replace_space(phone)) IN
    (IF startswith(sanitized, "+") THEN Tail(sanitized) ELSE sanitized)
        \o SESSION_SUFFIX

make_session_filename(phone) == replace_hyphen(replace_space(phone)) \o SESSION_SUFFIX

journal_of(path) == path \o JOURNAL_SUFFIX

MinPhoneLen == 7

\* mutant of phone_rejected: the length test is missing
phone_rejected_any_length(phone) == phone = <<>> \/ ~startswith(phone, "+")

\* the guard of receive_phone, on the stripped text
phone_rejected(phone) ==
    phone = <<>> \/ ~startswith(phone, "+") \/ Len(phone) < MinPhoneLen

\* ------------------------------------------------------------- inputs
PhonePlain == <<"+", "9", "1", "9", "8", "7", "6", "5", "4", "3", "2", "1", "0">>
PhonePadded == <<" ">> \o PhonePlain
PhoneShort == <<"+", "9", "1", "9", "8", "7">>
PhoneNoPlus == <<"9", "1", "9", "8", "7", "6", "5">>

Texts == {PhonePlain, PhonePadded, PhoneShort, PhoneNoPlus}
\* a command is a text whose first token is the bot command
Commands == {"/start", "/gensession", "/cancel", "/help"}

Messages == Texts \cup {<<c>> : c \in Commands}

\* ------------------------------------------------------------- state
VARIABLES
    conversations,      \* ConversationHandler._conversations: key -> state, END = no entry
    user_data,          \* application.user_data: user -> bag
    clients,            \* every TelegramClient object created so far
    files,              \* names of the files on disk
    tasks,              \* the webhook_handler tasks in flight
    last,               \* the update dispatched by the step just taken, and its handler
    done,               \* the handler call that ended in the step just taken
    updates,            \* the number of updates delivered so far
    DELETE_AFTER_SEND,  \* the configuration flag read at start-up
    args,               \* the phones of a pair of make_session_filename calls
    filenames           \* the results of that pair of calls

vars ==
    <<conversations, user_data, clients, files, tasks, last, done, updates,
      DELETE_AFTER_SEND, args, filenames>>

EmptyBag == [phone |-> NoText, client |-> NoHandle, session_path |-> NoText]

NoClient == [status |-> "unused", session |-> NoText]

IdleTask ==
    [pc |-> "idle", handler |-> NoneVal, key |-> NoKey, in_conv |-> FALSE,
     from |-> END, client |-> NoHandle, session_path |-> NoText,
     result |-> NoneVal, exc |-> FALSE, disconnects |-> 0,
     sent |-> NoText, notice |-> NoneVal, undelivered |-> FALSE,
     cancelled |-> FALSE]

NoUpdate == [key |-> NoKey, msg |-> NoText, handler |-> NoneVal]

NoExit ==
    [handler |-> NoneVal, key |-> NoKey, from |-> END, client |-> NoHandle,
     result |-> NoneVal, returned |-> NoneVal, disconnects |-> 0,
     sent |-> NoText, notice |-> NoneVal, undelivered |-> FALSE,
     cancelled |-> FALSE]

Init ==
    /\ conversations = [k \in Keys |-> END]
    /\ user_data = [u \in Users |-> EmptyBag]
    /\ clients = [h \in ClientIds |-> NoClient]
    /\ files = {}
    /\ tasks = [t \in Tasks |-> IdleTask]
    /\ last = NoUpdate
    /\ done = NoExit
    /\ updates = 0
    /\ DELETE_AFTER_SEND \in BOOLEAN
    /\ args = <<>>
    /\ filenames = <<>>

\* ------------------------------------------------------------- dispatch
\* The handlers of group 0 in the order setup_application adds them; the first
\* whose check_update accepts the update handles it, and no other one runs.
IsCommand(msg, name) == msg = <<name>>

\* filters.TEXT & ~filters.COMMAND
IsPlainText(msg) == msg # <<>> /\ Head(msg) \notin Commands

StateHandler(state) ==
    CASE state = ASK_PHONE -> "receive_phone"
      [] state = WAIT_CODE -> "receive_code"
      [] state = WAIT_2FA -> "receive_2fa"

\* mutant of conv_check_update: the conversation is built with allow_reentry
conv_check_update_reentry(state, msg) ==
    IF IsCommand(msg, "/gensession") THEN "gensession_start"
    ELSE IF state = END THEN NoneVal
         ELSE IF IsPlainText(msg) THEN StateHandler(state)
              ELSE IF IsCommand(msg, "/cancel") THEN "cancel_cmd" ELSE NoneVal

\* ConversationHandler.check_update: entry points only without a state (no
\* allow_reentry), else the handlers of the state, else the fallbacks
conv_check_update(state, msg) ==
    IF state = END
    THEN IF IsCommand(msg, "/gensession") THEN "gensession_start" ELSE NoneVal
    ELSE IF IsPlainText(msg) THEN StateHandler(state)
         ELSE IF IsCommand(msg, "/cancel") THEN "cancel_cmd" ELSE NoneVal

\* mutant of process_update: every handler that accepts the update runs
process_update_every_match(state, msg) ==
    (IF IsCommand(msg, "/start")
     THEN <<[handler |-> "start_cmd", in_conv |-> FALSE]>> ELSE <<>>)
    \o (IF conv_check_update(state, msg) # NoneVal
        THEN <<[handler |-> conv_check_update(state, msg), in_conv |-> TRUE]>>
        ELSE <<>>)
    \o (IF IsCommand(msg, "/cancel")
        THEN <<[handler |-> "cancel_cmd", in_conv |-> FALSE]>> ELSE <<>>)

\* the handlers that run for an update, each with whether it runs inside the
\* conversation handler (whose state its return value then updates)
process_update(state, msg) ==
    IF IsCommand(msg, "/start") THEN <<[handler |-> "start_cmd", in_conv |-> FALSE]>>
    ELSE IF conv_check_update(state, msg) # NoneVal
         THEN <<[handler |-> conv_check_update(state, msg), in_conv |-> TRUE]>>
         ELSE IF IsCommand(msg, "/cancel")
              THEN <<[handler |-> "cancel_cmd", in_conv |-> FALSE]>>
              ELSE <<>>

FreeTasks == {t \in Tasks : tasks[t].pc = "idle"}
FreeClients == {h \in ClientIds : clients[h].status = "unused"}
Lowest(S) == CHOOSE x \in S : \A y \in S : x <= y

Running(t) == tasks[t].pc # "idle"

\* the head of receive_phone: the text is accepted and the client is created
phone_accepted(t, base, k, phone) ==
    /\ FreeClients # {}
    /\ LET h == Lowest(FreeClients)
           session_path == make_session_filename(phone)
       IN /\ clients' = [clients EXCEPT ![h] =
                 [status |-> "created", session |-> session_path]]
          /\ user_data' = [user_data EXCEPT ![k[2]] =
                 [phone |-> phone, client |-> h, session_path |-> session_path]]
          /\ tasks' = [tasks EXCEPT ![t] =
                 [base EXCEPT !.pc = "phone_reply_sending", !.client = h,
                              !.session_path = session_path]]

\* the synchronous head of each handler, up to its first await
Begin(t, k, msg, handler, in_conv) ==
    LET base == [IdleTask EXCEPT !.handler = handler, !.key = k,
                                 !.in_conv = in_conv, !.from = conversations[k]]
        bag == user_data[k[2]]
    IN
    CASE handler = "start_cmd" ->
            /\ tasks' = [tasks EXCEPT ![t] = [base EXCEPT !.pc = "start_reply"]]
            /\ UNCHANGED <<user_data, clients>>
      [] handler = "gensession_start" ->
            /\ tasks' = [tasks EXCEPT ![t] = [base EXCEPT !.pc = "gen_reply"]]
            /\ UNCHANGED <<user_data, clients>>
      [] handler = "cancel_cmd" ->
            /\ tasks' = [tasks EXCEPT ![t] = [base EXCEPT !.pc = "cancel_reply"]]
            /\ UNCHANGED <<user_data, clients>>
      [] handler = "receive_phone" ->
            IF phone_rejected(strip(msg))
            THEN /\ tasks' = [tasks EXCEPT ![t] =
                        [base EXCEPT !.pc = "phone_reply_invalid"]]
                 /\ UNCHANGED <<user_data, clients>>
            ELSE phone_accepted(t, base, k, strip(msg))
      [] handler = "receive_code" ->
            /\ tasks' = [tasks EXCEPT ![t] =
                   [base EXCEPT !.client = bag.client,
                                !.session_path = bag.session_path,
                                !.pc = IF \/ bag.client = NoHandle
                                          \/ bag.phone = NoText
                                          \/ bag.session_path = NoText
                                       THEN "code_reply_expired"
                                       ELSE "code_sign_in"]]
            /\ UNCHANGED <<user_data, clients>>
      [] handler = "receive_2fa" ->
            /\ tasks' = [tasks EXCEPT ![t] =
                   [base EXCEPT !.client = bag.client,
                                !.session_path = bag.session_path,
                                !.pc = IF \/ bag.client = NoHandle
                                          \/ bag.session_path = NoText
                                       THEN "2fa_reply_expired"
                                       ELSE "2fa_sign_in"]]
            /\ UNCHANGED <<user_data, clients>>

\* webhook_handler: decode the update, await process_update
webhook_handler(k, msg) ==
    LET chosen == process_update(conversations[k], msg) IN
    /\ last' = [key |-> k, msg |-> msg,
                handler |-> IF chosen = <<>> THEN NoneVal ELSE chosen[1].handler]
    /\ done' = NoExit
    /\ updates < MaxUpdates
    /\ updates' = updates + 1
    /\ IF chosen = <<>>
       THEN UNCHANGED <<user_data, clients, tasks>>
       ELSE /\ FreeTasks # {}
            /\ Begin(Lowest(FreeTasks), k, msg, chosen[1].handler, chosen[1].in_conv)
    /\ UNCHANGED <<conversations, files, DELETE_AFTER_SEND, args, filenames>>

\* Nothing in the program depends on which chat is which, so the first update
\* of a run is taken to be for the lowest chat.
Deliver ==
    \E k \in Keys, msg \in Messages :
        /\ updates = 0 => k[1] = Lowest(Chats)
        /\ webhook_handler(k, msg)

\* ------------------------------------------------------------- handler exits
RAISED == "raised"

\* ConversationHandler._update_state with the handler's return value
update_state(k, new_state) == [conversations EXCEPT ![k] = new_state]

\* The handler call, whose local state is `task`, ends after `calls` more calls
\* of client.disconnect(). It returns `returned` to the conversation handler,
\* which updates the state of the key; a handler that raises, or one registered
\* outside the conversation, leaves the state as it is. When cancel_cmd, called
\* for a conversation in WAIT_CODE or WAIT_2FA, returns, the calls for the same
\* key that are still suspended are marked cancelled.
ExitWith(t, task, returned, calls) ==
    /\ tasks' = [t2 \in Tasks |->
                    IF t2 = t THEN IdleTask
                    ELSE IF /\ task.handler = "cancel_cmd" /\ returned = END
                            /\ task.from \in {WAIT_CODE, WAIT_2FA}
                            /\ Running(t2) /\ tasks[t2].key = task.key
                         THEN [tasks[t2] EXCEPT !.cancelled = TRUE]
                         ELSE tasks[t2]]
    /\ conversations' = IF task.in_conv /\ returned \notin {NoneVal, RAISED}
                        THEN update_state(task.key, returned)
                        ELSE conversations
    /\ last' = NoUpdate
    /\ UNCHANGED <<updates, args, filenames>>
    /\ done' = [handler |-> task.handler, key |-> task.key,
                from |-> task.from, client |-> task.client,
                result |-> task.result, returned |-> returned,
                disconnects |-> task.disconnects + calls,
                sent |-> task.sent, notice |-> task.notice,
                undelivered |-> task.undelivered, cancelled |-> task.cancelled]

Exit(t, returned, calls) == ExitWith(t, tasks[t], returned, calls)

Return(t, new_state) == Exit(t, new_state, 0)

Raise(t) == Exit(t, RAISED, 0)

\* the handler goes on to its next await
Stay(t, task) ==
    /\ tasks' = [tasks EXCEPT ![t] = task]
    /\ done' = NoExit
    /\ last' = NoUpdate
    /\ UNCHANGED <<updates, args, filenames>>
    /\ UNCHANGED conversations

Goto(t, pc) == Stay(t, [tasks[t] EXCEPT !.pc = pc])

\* client.disconnect(): an error it raises is swallowed by every caller
disconnect(h) == [clients EXCEPT ![h].status = "disconnected"]

\* mutant of clear: the client stays in the bag
clear_keeps_client(u) ==
    [user_data EXCEPT ![u].phone = NoText, ![u].session_path = NoText]

\* context.user_data.clear()
clear(u) == [user_data EXCEPT ![u] = EmptyBag]

\* ------------------------------------------------------------- start_cmd
start_cmd(t) ==
    /\ tasks[t].pc = "start_reply"
    /\ \E ok \in BOOLEAN : IF ok THEN Return(t, NoneVal) ELSE Raise(t)
    /\ UNCHANGED <<user_data, clients, files, DELETE_AFTER_SEND>>

\* ------------------------------------------------------------- gensession_start
gensession_start(t) ==
    /\ tasks[t].pc = "gen_reply"
    /\ \E ok \in BOOLEAN : IF ok THEN Return(t, ASK_PHONE) ELSE Raise(t)
    /\ UNCHANGED <<user_data, clients, files, DELETE_AFTER_SEND>>

\* ------------------------------------------------------------- cancel_cmd
cancel_cmd(t) ==
    LET u == tasks[t].key[2]
        client == user_data[u].client
    IN
    /\ UNCHANGED <<files, DELETE_AFTER_SEND>>
    /\ \/ /\ tasks[t].pc = "cancel_reply"
          /\ \E ok \in BOOLEAN :
               IF ~ok
               THEN Raise(t) /\ UNCHANGED <<user_data, clients>>
               ELSE IF client # NoHandle
                    THEN /\ Stay(t, [tasks[t] EXCEPT !.pc = "cancel_disconnect",
                                                     !.client = client])
                         /\ UNCHANGED <<user_data, clients>>
                    ELSE /\ user_data' = clear(u)
                         /\ Return(t, END)
                         /\ UNCHANGED clients
       \/ /\ tasks[t].pc = "cancel_disconnect"
          /\ clients' = disconnect(tasks[t].client)
          /\ user_data' = clear(u)
          /\ Exit(t, END, 1)

\* ------------------------------------------------------------- receive_phone
SendCodeResults == {"ok", "PhoneNumberInvalidError", "error"}

receive_phone(t) ==
    LET h == tasks[t].client
        u == tasks[t].key[2]
    IN
    /\ UNCHANGED <<files, DELETE_AFTER_SEND>>
    /\ \/ /\ tasks[t].pc = "phone_reply_invalid"
          /\ \E ok \in BOOLEAN : IF ok THEN Return(t, ASK_PHONE) ELSE Raise(t)
          /\ UNCHANGED <<user_data, clients>>
       \/ /\ tasks[t].pc = "phone_reply_sending"
          /\ \E ok \in BOOLEAN : IF ok THEN Goto(t, "phone_connect") ELSE Raise(t)
          /\ UNCHANGED <<user_data, clients>>
       \/ /\ tasks[t].pc = "phone_connect"
          /\ \E ok \in BOOLEAN :
               IF ok
               THEN /\ clients' = [clients EXCEPT ![h].status = "connected"]
                    /\ Goto(t, "phone_send_code")
               ELSE /\ Stay(t, [tasks[t] EXCEPT !.pc = "phone_reply_error",
                                                !.result = "error"])
                    /\ UNCHANGED clients
          /\ UNCHANGED user_data
       \/ /\ tasks[t].pc = "phone_send_code"
          /\ \E r \in SendCodeResults :
               Stay(t, [tasks[t] EXCEPT !.result = r,
                   !.pc = CASE r = "ok" -> "phone_reply_sent"
                            [] r = "PhoneNumberInvalidError" -> "phone_reply_badnumber"
                            [] OTHER -> "phone_reply_error"])
          /\ UNCHANGED <<user_data, clients>>
       \/ /\ tasks[t].pc = "phone_reply_sent"
          /\ \E ok \in BOOLEAN :
               IF ok THEN Return(t, WAIT_CODE) ELSE Goto(t, "phone_reply_error")
          /\ UNCHANGED <<user_data, clients>>
       \/ /\ tasks[t].pc \in {"phone_reply_badnumber", "phone_reply_error"}
          /\ \E ok \in BOOLEAN : IF ok THEN Goto(t, "phone_disconnect") ELSE Raise(t)
          /\ UNCHANGED <<user_data, clients>>
       \/ /\ tasks[t].pc = "phone_disconnect"
          /\ clients' = disconnect(h)
          /\ user_data' = clear(u)
          /\ Exit(t, END, 1)

\* ------------------------------------------------------------- safe_send_file
\* the head of safe_send_file: path.exists()
send_file_pc(path, on_disk) ==
    IF path \in on_disk THEN "send_document" ELSE "send_reply_notfound"

\* the caller enters safe_send_file after its call of client.disconnect()
enter_send_file(task, on_disk) ==
    [task EXCEPT !.disconnects = @ + 1,
                 !.pc = send_file_pc(task.session_path, on_disk),
                 !.undelivered = (task.session_path \notin on_disk)]

\* mutant of after_delete: the flag is not consulted
after_delete_always(path, unlinked, journal_unlinked) ==
    files \ {path, journal_of(path)}

\* the files left by the deletion after a send: the session file and its
\* journal are unlinked one after the other, and an unlink that raises is
\* logged or ignored and leaves its file in place
after_delete(path, unlinked, journal_unlinked) ==
    IF DELETE_AFTER_SEND
    THEN files \ ( (IF unlinked THEN {path} ELSE {})
                   \cup (IF journal_unlinked THEN {journal_of(path)} ELSE {}) )
    ELSE files

\* the messages a handler sends about a failure
NOT_FOUND == "Session file not found."
SEND_FAILED == "Failed to send session file."
SIGN_IN_FAILED == "Unexpected error during sign-in."
TWO_FA_FAILED == "Error with 2FA sign-in. Try again."

\* safe_send_file returned to its caller, whose local state is now `task`
Delivered(t, task) ==
    IF task.handler = "receive_code"
    THEN /\ user_data' = clear(task.key[2])
         /\ ExitWith(t, task, END, 0)
    ELSE /\ Stay(t, [task EXCEPT !.pc = "2fa_finally"])
         /\ UNCHANGED user_data

\* safe_send_file raised into the except Exception clause of its caller
DeliveryRaised(t) ==
    /\ Goto(t, IF tasks[t].handler = "receive_code"
               THEN "code_reply_failed" ELSE "2fa_reply_error")
    /\ UNCHANGED user_data

safe_send_file(t) ==
    /\ UNCHANGED <<clients, DELETE_AFTER_SEND>>
    /\ \/ /\ tasks[t].pc \in {"send_reply_notfound", "send_reply_failed"}
          /\ \E ok \in BOOLEAN :
               IF ok
               THEN Delivered(t, [tasks[t] EXCEPT !.notice =
                        IF tasks[t].pc = "send_reply_notfound"
                        THEN NOT_FOUND ELSE SEND_FAILED])
               ELSE DeliveryRaised(t)
          /\ UNCHANGED files
       \/ /\ tasks[t].pc = "send_document"
          /\ \E ok \in BOOLEAN, unlinked \in BOOLEAN, journal_unlinked \in BOOLEAN :
               IF ok
               THEN /\ files' = after_delete(tasks[t].session_path, unlinked,
                                             journal_unlinked)
                    /\ Delivered(t, [tasks[t] EXCEPT !.sent = tasks[t].session_path])
               ELSE /\ Stay(t, [tasks[t] EXCEPT !.pc = "send_reply_failed",
                                                !.undelivered = TRUE])
                    /\ UNCHANGED <<user_data, files>>

\* ------------------------------------------------------------- sign_in
CodeResults ==
    {"ok", "SessionPasswordNeededError", "PhoneCodeInvalidError",
     "PhoneCodeExpiredError", "error"}

PasswordResults == {"ok", "SessionPasswordNeededError", "error"}

\* a client that is not connected raises a connection error
sign_in_results(h, all) == IF clients[h].status = "connected" THEN all ELSE {"error"}

\* Telethon writes the session file and its journal on a successful sign-in
signed_in(h, r) ==
    IF r = "ok"
    THEN files \cup {clients[h].session, journal_of(clients[h].session)}
    ELSE files

\* ------------------------------------------------------------- receive_code
receive_code(t) ==
    LET h == tasks[t].client
        u == tasks[t].key[2]
    IN
    /\ UNCHANGED DELETE_AFTER_SEND
    /\ \/ /\ tasks[t].pc = "code_reply_expired"
          /\ \E ok \in BOOLEAN :
               IF ok THEN user_data' = clear(u) /\ Return(t, END)
               ELSE Raise(t) /\ UNCHANGED user_data
          /\ UNCHANGED <<clients, files>>
       \/ /\ tasks[t].pc = "code_sign_in"
          /\ \E r \in sign_in_results(h, CodeResults) :
               /\ files' = signed_in(h, r)
               /\ Stay(t, [tasks[t] EXCEPT !.result = r,
                      !.pc = CASE r = "ok" -> "code_reply_signed"
                               [] r = "SessionPasswordNeededError" -> "code_reply_2fa"
                               [] OTHER -> "code_reply_failed"])
          /\ UNCHANGED <<user_data, clients>>
       \/ /\ tasks[t].pc = "code_reply_signed"
          /\ \E ok \in BOOLEAN :
               IF ok THEN Goto(t, "code_disconnect") ELSE Goto(t, "code_reply_failed")
          /\ UNCHANGED <<user_data, clients, files>>
       \/ /\ tasks[t].pc = "code_disconnect"
          /\ clients' = disconnect(h)
          /\ Stay(t, enter_send_file(tasks[t], files))
          /\ UNCHANGED <<user_data, files>>
       \/ /\ tasks[t].pc = "code_reply_2fa"
          /\ \E ok \in BOOLEAN : IF ok THEN Return(t, WAIT_2FA) ELSE Raise(t)
          /\ UNCHANGED <<user_data, clients, files>>
       \/ /\ tasks[t].pc = "code_reply_failed"
          /\ \E ok \in BOOLEAN :
               IF ok
               THEN Stay(t, [tasks[t] EXCEPT !.pc = "code_cleanup",
                                            !.notice = SIGN_IN_FAILED])
               ELSE Raise(t)
          /\ UNCHANGED <<user_data, clients, files>>
       \/ /\ tasks[t].pc = "code_cleanup"
          /\ clients' = disconnect(h)
          /\ user_data' = clear(u)
          /\ Exit(t, END, 1)
          /\ UNCHANGED files

\* ------------------------------------------------------------- receive_2fa
receive_2fa(t) ==
    LET h == tasks[t].client
        u == tasks[t].key[2]
    IN
    /\ UNCHANGED DELETE_AFTER_SEND
    /\ \/ /\ tasks[t].pc = "2fa_reply_expired"
          /\ \E ok \in BOOLEAN :
               IF ok THEN user_data' = clear(u) /\ Return(t, END)
               ELSE Raise(t) /\ UNCHANGED user_data
          /\ UNCHANGED <<clients, files>>
       \/ /\ tasks[t].pc = "2fa_sign_in"
          /\ \E r \in sign_in_results(h, PasswordResults) :
               /\ files' = signed_in(h, r)
               /\ Stay(t, [tasks[t] EXCEPT !.result = r,
                      !.pc = CASE r = "ok" -> "2fa_reply_accepted"
                               [] r = "SessionPasswordNeededError" -> "2fa_reply_incorrect"
                               [] OTHER -> "2fa_reply_error"])
          /\ UNCHANGED <<user_data, clients>>
       \/ /\ tasks[t].pc = "2fa_reply_accepted"
          /\ \E ok \in BOOLEAN :
               IF ok THEN Goto(t, "2fa_disconnect") ELSE Goto(t, "2fa_reply_error")
          /\ UNCHANGED <<user_data, clients, files>>
       \/ /\ tasks[t].pc = "2fa_disconnect"
          /\ clients' = disconnect(h)
          /\ Stay(t, enter_send_file(tasks[t], files))
          /\ UNCHANGED <<user_data, files>>
       \/ /\ tasks[t].pc \in {"2fa_reply_incorrect", "2fa_reply_error"}
          /\ \E ok \in BOOLEAN :
               Stay(t, [tasks[t] EXCEPT !.pc = "2fa_finally", !.exc = ~ok,
                   !.notice = IF ok /\ tasks[t].pc = "2fa_reply_error"
                              THEN TWO_FA_FAILED ELSE @])
          /\ UNCHANGED <<user_data, clients, files>>
       \/ /\ tasks[t].pc = "2fa_finally"
          /\ clients' = disconnect(h)
          /\ user_data' = clear(u)
          /\ Exit(t, IF tasks[t].exc THEN RAISED ELSE END, 1)
          /\ UNCHANGED files

\* ------------------------------------------------------------- specification
\* an update is delivered, or a task in flight resumes from its await
Next ==
    \/ Deliver
    \/ \E t \in Tasks : start_cmd(t)
    \/ \E t \in Tasks : gensession_start(t)
    \/ \E t \in Tasks : cancel_cmd(t)
    \/ \E t \in Tasks : receive_phone(t)
    \/ \E t \in Tasks : receive_code(t)
    \/ \E t \in Tasks : receive_2fa(t)
    \/ \E t \in Tasks : safe_send_file(t)

Spec == Init /\ [][Next]_vars

\* The event loop resumes every task whose await has completed; nothing obliges
\* the users to send another update.
TaskStep ==
    \E t \in Tasks :
        \/ start_cmd(t) \/ gensession_start(t) \/ cancel_cmd(t) \/ receive_phone(t)
        \/ receive_code(t) \/ receive_2fa(t) \/ safe_send_file(t)

FairSpec == Spec /\ WF_vars(TaskStep)

\* ------------------------------------------------------------- make_session_filename
\* make_session_filename on its own: a pair of phones over a small alphabet,
\* each at most MaxPhoneLen characters long, and the two calls
MaxPhoneLen == 3

PhoneAlphabet == {"+", "1", " ", "-"}

PhoneStrings == UNION {[1..n -> PhoneAlphabet] : n \in 0..MaxPhoneLen}

FilenameInit ==
    /\ conversations = [k \in Keys |-> END]
    /\ user_data = [u \in Users |-> EmptyBag]
    /\ clients = [h \in ClientIds |-> NoClient]
    /\ files = {}
    /\ tasks = [t \in Tasks |-> IdleTask]
    /\ last = NoUpdate
    /\ done = NoExit
    /\ updates = 0
    /\ DELETE_AFTER_SEND = FALSE
    /\ args \in PhoneStrings \X PhoneStrings
    /\ filenames = <<>>

MakeFilenames ==
    /\ filenames = <<>>
    /\ filenames' = <<make_session_filename(args[1]), make_session_filename(args[2])>>
    /\ UNCHANGED <<conversations, user_data, clients, files, tasks, last, done,
                   updates, DELETE_AFTER_SEND, args>>

FilenameSpec == FilenameInit /\ [][MakeFilenames]_vars

\* ------------------------------------------------------------- shorthands
Quiescent == \A t \in Tasks : ~Running(t)

Bag(k) == user_data[k[2]]

Awaiting == {WAIT_CODE, WAIT_2FA}

\* ------------------------------------------------------------- C1
\* C1: two deliveries for one chat racing on the code step are serialized - no
\* two receive_code calls in flight for the same conversation have both called
\* sign_in on the same client.
C1_NoDoubleSignIn ==
    \A t1, t2 \in Tasks :
        ( /\ t1 # t2
          /\ tasks[t1].handler = "receive_code" /\ tasks[t2].handler = "receive_code"
          /\ tasks[t1].key = tasks[t2].key
          /\ tasks[t1].result # NoneVal /\ tasks[t2].result # NoneVal )
        => tasks[t1].client # tasks[t2].client

\* ------------------------------------------------------------- C2
\* C2: whenever no handler is running, every connected client is the client of
\* a registered conversation that is in WAIT_CODE or WAIT_2FA.
C2_ConnectedHandlesOwned ==
    Quiescent =>
        \A h \in ClientIds :
            clients[h].status = "connected" =>
                \E k \in Keys : conversations[k] \in Awaiting /\ Bag(k).client = h

\* ------------------------------------------------------------- C3
\* C3: a handler call whose sign_in succeeded ends with exactly one call of
\* disconnect, the client released and the conversation removed.
C3_CompletedReleasedOnce ==
    (done.handler \in {"receive_code", "receive_2fa"} /\ done.result = "ok") =>
        /\ done.disconnects = 1
        /\ clients[done.client].status = "disconnected"
        /\ conversations[done.key] = END

\* ------------------------------------------------------------- C4
\* C4: a cancel_cmd call for a registered conversation (in ASK_PHONE, WAIT_CODE
\* or WAIT_2FA) ends with the conversation removed, the fields of the user
\* cleared and the client, if there was one, disconnected exactly once.
C4_CancelAborts ==
    (done.handler = "cancel_cmd" /\ done.from # END) =>
        /\ conversations[done.key] = END
        /\ Bag(done.key) = EmptyBag
        /\ done.client # NoHandle =>
              (done.disconnects = 1 /\ clients[done.client].status = "disconnected")

\* ------------------------------------------------------------- C5
\* C5: /gensession delivered for a key that has a conversation runs no handler
\* and changes neither the conversation states, the stored fields nor the
\* clients.
C5_EntryIgnoredWhileActive ==
    [][ ( /\ last'.key \in Keys
          /\ IsCommand(last'.msg, "/gensession")
          /\ conversations[last'.key] # END )
        => UNCHANGED <<conversations, user_data, clients, files, tasks>> ]_vars

C5_Witness ==
    /\ last.key \in Keys
    /\ IsCommand(last.msg, "/gensession")
    /\ conversations[last.key] = WAIT_CODE
    /\ Bag(last.key).client # NoHandle
    /\ clients[Bag(last.key).client].status = "connected"

\* ------------------------------------------------------------- C6
\* C6: a receive_2fa call whose password the backend rejected ends with the
\* conversation still in WAIT_2FA, its client connected and still stored.
C6_WrongPasswordStays ==
    (done.handler = "receive_2fa" /\ done.result = "SessionPasswordNeededError") =>
        /\ conversations[done.key] = WAIT_2FA
        /\ clients[done.client].status = "connected"
        /\ Bag(done.key).client = done.client

\* ------------------------------------------------------------- C7
\* the claim's test on a text: it does not start with '+' or is shorter than 7
Malformed(text) == text = <<>> \/ Head(text) # "+" \/ Len(text) < 7

\* the effect of a receive_phone call that only re-prompts: nothing but the
\* task changes when it starts, and when it ends the conversation is left as
\* it is or set to ASK_PHONE
OnlyReprompts(rejected) ==
    /\ ( /\ last'.handler = "receive_phone" /\ rejected )
       => UNCHANGED <<conversations, user_data, clients, files>>
    /\ \A t \in Tasks :
          (tasks[t].pc = "phone_reply_invalid" /\ tasks'[t].pc # "phone_reply_invalid")
          => /\ UNCHANGED <<user_data, clients, files>>
             /\ tasks'[t].pc = "idle"
             /\ done'.returned \in {ASK_PHONE, RAISED}
             /\ conversations' = IF done'.returned = ASK_PHONE
                                  THEN [conversations EXCEPT ![tasks[t].key] = ASK_PHONE]
                                  ELSE conversations

\* C7 as claimed: a text delivered in ASK_PHONE that itself is malformed only
\* re-prompts.
C7_RawTextRejected == [][OnlyReprompts(Malformed(last'.msg))]_vars

\* C7 as amended: a text delivered in ASK_PHONE whose stripped form is malformed
\* only re-prompts - no client is created, the stored fields stay as they are
\* and the handler returns ASK_PHONE.
C7_StrippedTextRejected == [][OnlyReprompts(Malformed(strip(last'.msg)))]_vars

C7_Witness ==
    /\ done.handler = "receive_phone"
    /\ done.client = NoHandle
    /\ done.returned = ASK_PHONE
    /\ conversations[done.key] = ASK_PHONE
    /\ Bag(done.key) = EmptyBag

\* ------------------------------------------------------------- C8
\* C8: a conversation is not left registered for ever without input - every
\* registered conversation is eventually removed or receives another update.
C8_IdleTornDown ==
    \A k \in Keys :
        (conversations[k] # END) ~> (conversations[k] = END \/ last.key = k)

\* ------------------------------------------------------------- C9
\* C9: between handler calls (also after one that raised), a conversation
\* registered in WAIT_CODE or WAIT_2FA has its client, phone and session path
\* stored.
C9_HandleWhileAwaiting ==
    \A k \in Keys :
        (Quiescent /\ conversations[k] \in Awaiting) =>
            /\ Bag(k).client # NoHandle
            /\ Bag(k).phone # NoText
            /\ Bag(k).session_path # NoText

\* ------------------------------------------------------------- C10
\* C10: a receive_code call whose code the backend reported invalid or expired
\* ends with the conversation removed, the client disconnected and no longer
\* stored.
C10_BadCodeAborts ==
    ( /\ done.handler = "receive_code"
      /\ done.result \in {"PhoneCodeInvalidError", "PhoneCodeExpiredError"} ) =>
        /\ conversations[done.key] = END
        /\ clients[done.client].status = "disconnected"
        /\ Bag(done.key).client # done.client

\* ------------------------------------------------------------- C11
\* C11: a receive_code call whose sign_in asked for the password ends with the
\* conversation in WAIT_2FA, its client connected and still stored; and a
\* receive_2fa call whose password was accepted, and which reported no failure,
\* ends with the conversation removed and the session file sent.
C11_SecondFactorPath ==
    /\ (done.handler = "receive_code" /\ done.result = "SessionPasswordNeededError") =>
          /\ conversations[done.key] = WAIT_2FA
          /\ clients[done.client].status = "connected"
          /\ Bag(done.key).client = done.client
    /\ ( /\ done.handler = "receive_2fa" /\ done.result = "ok"
         /\ done.returned = END /\ done.notice = NoneVal ) =>
          /\ conversations[done.key] = END
          /\ done.sent = clients[done.client].session

\* ------------------------------------------------------------- C12
\* C12: a handler call whose sign_in succeeded and whose delivery failed (the
\* file was missing or send_document raised) ends with the conversation removed
\* and the client disconnected, after telling the user that the delivery
\* failed, not that the sign-in failed.
C12_DeliveryFailureReported ==
    ( /\ done.handler \in {"receive_code", "receive_2fa"}
      /\ done.result = "ok" /\ done.undelivered ) =>
        /\ conversations[done.key] = END
        /\ clients[done.client].status = "disconnected"
        /\ done.sent = NoText
        /\ done.notice \in {NOT_FOUND, SEND_FAILED}

\* ------------------------------------------------------------- C13
\* a step that removes the conversation of a key leaves nothing stored for it
EndClearsFields ==
    \A k \in Keys :
        (conversations[k] # END /\ conversations'[k] = END) => Bag(k)' = EmptyBag

\* /gensession delivered for a key without a conversation starts
\* gensession_start, which stores nothing and creates no client; when it
\* returns, the key is in ASK_PHONE
EntryStartsFresh ==
    /\ ( /\ last'.key \in Keys
         /\ IsCommand(last'.msg, "/gensession")
         /\ conversations[last'.key] = END )
       => /\ last'.handler = "gensession_start"
          /\ UNCHANGED <<conversations, user_data, clients, files>>
    /\ \A t \in Tasks :
          (tasks[t].handler = "gensession_start" /\ tasks'[t].pc = "idle")
          => /\ UNCHANGED <<user_data, clients, files>>
             /\ done'.returned \in {ASK_PHONE, RAISED}
             /\ done'.returned = ASK_PHONE =>
                   conversations' = [conversations EXCEPT ![tasks[t].key] = ASK_PHONE]

IsDigitOrPlus(c) == c \notin {" ", "-"}

WithoutSeparators(s) == SelectSeq(s, IsDigitOrPlus)

\* C14: two phones that are equal once their spaces and hyphens are left out
\* get the same file name, and removing the spaces and hyphens of a phone a
\* second time changes nothing, in the name either.
C14_FilenameOfDigits ==
    filenames # <<>> =>
        /\ WithoutSeparators(args[1]) = WithoutSeparators(args[2])
              => filenames[1] = filenames[2]
        /\ \A i \in {1, 2} :
              LET once == replace_hyphen(replace_space(args[i])) IN
              /\ replace_hyphen(replace_space(once)) = once
              /\ make_session_filename(once) = filenames[i]
              /\ filenames[i] = WithoutSeparators(args[i]) \o SESSION_SUFFIX

C14_Witness ==
    /\ filenames # <<>>
    /\ args[1] # args[2]
    /\ filenames[1] = filenames[2]
    /\ \E i, j \in 1..Len(args[1]) : args[1][i] = " " /\ args[1][j] = "-"
    /\ Len(filenames[1]) > 1

\* ------------------------------------------------------------- C15
\* a receive_code call that signed in with the code and sent the session file
HappyPathDelivery ==
    /\ done.handler = "receive_code"
    /\ done.result = "ok"
    /\ done.sent # NoText

\* C15 as claimed: the file sent on the happy path for +919876543210 is
\* 919876543210.session, and the conversation is removed.
C15_DigitsOnlyArtifact ==
    HappyPathDelivery =>
        /\ done.sent = <<"9", "1", "9", "8", "7", "6", "5", "4", "3", "2", "1", "0">>
                          \o SESSION_SUFFIX
        /\ conversations[done.key] = END

\* C15 as amended: the file sent on the happy path for +919876543210 is
\* +919876543210.session, the '+' kept, and the conversation is removed.
C15_PlusKeptArtifact ==
    HappyPathDelivery =>
        /\ done.sent = <<"+", "9", "1", "9", "8", "7", "6", "5", "4", "3", "2", "1", "0">>
                          \o SESSION_SUFFIX
        /\ done.returned = END
        /\ conversations[done.key] = END

C15_Witness ==
    /\ HappyPathDelivery
    /\ done.from = WAIT_CODE
    /\ done.notice = NoneVal
    /\ done.disconnects = 1
    /\ Head(done.sent) = "+"
    /\ conversations[done.key] = END
    /\ Bag(done.key) = EmptyBag

\* ------------------------------------------------------------- C16
\* C16: a receive_phone call whose connect or send_code_request failed ends
\* with the conversation removed, never in WAIT_CODE, the client disconnected
\* and the stored fields cleared.
C16_CodeRequestFailureAborts ==
    ( /\ done.handler = "receive_phone"
      /\ done.result \in {"PhoneNumberInvalidError", "error"} ) =>
        /\ done.returned # WAIT_CODE
        /\ conversations[done.key] = END
        /\ clients[done.client].status = "disconnected"
        /\ Bag(done.key) = EmptyBag

\* ------------------------------------------------------------- C17
\* the step in which send_document of task t succeeds
SendSucceeds(t) ==
    /\ tasks[t].pc = "send_document"
    /\ IF tasks[t].handler = "receive_code"
       THEN tasks'[t].pc = "idle" /\ done'.sent = tasks[t].session_path
       ELSE tasks'[t].sent = tasks[t].session_path

\* files are removed only by a successful send with the flag set, and only the
\* session file sent and its journal; without the flag a successful send
\* leaves the files alone; and whatever the deletion does, the caller goes on
\* as after a delivery, with no failure message
DeletesOnlyAfterSend ==
    /\ files \ files' # {} =>
          /\ DELETE_AFTER_SEND
          /\ \E t \in Tasks :
                /\ SendSucceeds(t)
                /\ files' \subseteq files
                /\ files \ files' \subseteq
                      {tasks[t].session_path, journal_of(tasks[t].session_path)}
    /\ \A t \in Tasks : SendSucceeds(t) =>
          /\ ~DELETE_AFTER_SEND => files' = files
          /\ IF tasks[t].handler = "receive_code"
             THEN done'.returned = END /\ done'.notice = NoneVal
             ELSE tasks'[t].pc = "2fa_finally" /\ tasks'[t].notice = NoneVal

\* after a successful send with the flag set neither file is left
BothGoneAfterSend ==
    \A t \in Tasks : (SendSucceeds(t) /\ DELETE_AFTER_SEND) =>
        /\ tasks[t].session_path \notin files'
        /\ journal_of(tasks[t].session_path) \notin files'

\* C17 as claimed: the deletion happens only after a successful send and only
\* with the flag set, never fails the conversation, and after it neither the
\* session file nor its journal exists.
C17_DeletedAfterSend == [][DeletesOnlyAfterSend /\ BothGoneAfterSend]_vars

\* C17 as amended: the deletion happens only after a successful send and only
\* with the flag set, never fails the conversation, and removes nothing but
\* the session file and its journal - each of which stays when its unlink
\* raises.
C17_DeletionAttemptedAfterSend == [][DeletesOnlyAfterSend]_vars

C17_Witness ==
    /\ DELETE_AFTER_SEND
    /\ done.handler = "receive_code"
    /\ done.sent # NoText
    /\ done.returned = END
    /\ done.sent \notin files
    /\ journal_of(done.sent) \notin files

\* ------------------------------------------------------------- C18
\* the handler calls that begin in a step
Started == {t \in Tasks : tasks[t].pc = "idle" /\ tasks'[t].pc # "idle"}

\* C18: the delivery of an update starts the one handler chosen for it, or none
\* if no handler accepts it, and touches no other call; /cancel for a key with
\* a conversation starts cancel_cmd once, as the fallback of the conversation;
\* and no handler call begins in any other step.
C18_OneHandlerPerUpdate ==
    [][ IF last'.key \in Keys
        THEN LET chosen == process_update(conversations[last'.key], last'.msg) IN
             /\ Len(chosen) <= 1
             /\ Cardinality(Started) = Len(chosen)
             /\ \A t \in Started :
                   /\ tasks'[t].handler = chosen[1].handler
                   /\ tasks'[t].in_conv = chosen[1].in_conv
                   /\ tasks'[t].key = last'.key
             /\ \A t \in Tasks \ Started : tasks'[t] = tasks[t]
             /\ (IsCommand(last'.msg, "/cancel") /\ conversations[last'.key] # END)
                   => chosen = <<[handler |-> "cancel_cmd", in_conv |-> TRUE]>>
        ELSE Started = {} ]_vars

C18_Witness ==
    /\ last.key \in Keys
    /\ IsCommand(last.msg, "/cancel")
    /\ conversations[last.key] = WAIT_CODE
    /\ Cardinality({t \in Tasks : Running(t)}) = 1
    /\ \E t \in Tasks :
          /\ tasks[t].pc = "cancel_reply"
          /\ tasks[t].in_conv
          /\ tasks[t].key = last.key

\* ------------------------------------------------------------- C19
\* C19: a step of a handler call for one key changes neither the state of the
\* conversation of any other key nor the phone, session path and client stored
\* for it, nor that client.
C19_ChatsIndependent ==
    [][ \A t \in Tasks : tasks'[t] # tasks[t] =>
          LET k == IF Running(t) THEN tasks[t].key ELSE tasks'[t].key IN
          \A other \in Keys \ {k} : conversations[other] # END =>
              /\ conversations'[other] = conversations[other]
              /\ Bag(other)' = Bag(other)
              /\ Bag(other).client # NoHandle =>
                    clients'[Bag(other).client] = clients[Bag(other).client] ]_vars

\* ------------------------------------------------------------- C20
\* C20: a receive_code or receive_2fa call that was suspended when cancel_cmd
\* returned for its chat sends no session file afterwards and does not register
\* the conversation again, and its client is not connected when it ends.
C20_CancelEndsAttempt ==
    (done.handler \in {"receive_code", "receive_2fa"} /\ done.cancelled) =>
        /\ done.sent = NoText
        /\ done.returned \notin Awaiting
        /\ clients[done.client].status # "connected"
====
